---------------------------- MODULE Spec2Model ----------------------------
(***************************************************************************)
(* PyNetScanner: the concurrent probing core.                              *)
(*                                                                         *)
(*   SpecCidr    network/host_discovery.py  get_ip_range_from_cidr         *)
(*   Spec        network/port_scanner.py    scan_port_range,               *)
(*                                          scan_common_ports              *)
(*               network/host_discovery.py  discover_hosts                 *)
(*   SpecLegacy  network_utils.py           scan_port_range (one thread    *)
(*                                          per port, lock, active_count)  *)
(*   SpecCancel  Spec, with the caller asking the running scan to stop     *)
(*   SpecProbe   network/port_scanner.py    scan_port, one unit of         *)
(*                                          scan_common_ports              *)
(*               network_utils.py           scan_port                      *)
(*   SpecPing    network_utils.py           ping_host, tcp_ping            *)
(*   SpecSessions  network/port_scanner.py  two calls of scan_port_range   *)
(*                                          and their list objects         *)
(*   SpecTimed   the pool scans on a clock: probes of at most the timeout, *)
(*               the lookups of discover_hosts on the collecting thread    *)
(*   SpecScans   Spec and SpecLegacy together                              *)
(***************************************************************************)
EXTENDS Integers, Sequences, FiniteSets, TLC

VARIABLES
    \* ---- get_ip_range_from_cidr (SpecCidr) ----
    cidr,          \* the argument: the text split at '/' and '.', see CidrInputs
    ips,           \* the returned list
    cidrPc,        \* "call" before the call, "ret" after it
    \* ---- scan_port_range, scan_common_ports, discover_hosts (Spec) ----
    fn,            \* the function called: "range", "common" or "discover"
    start_port,    \* arguments of scan_port_range
    end_port,
    network_range, \* argument of discover_hosts: a CIDR text, or NoneRange
    max_threads,   \* argument max_threads
    callback,      \* TRUE when a progress callback is supplied
    pc,            \* "call", "scan" (inside the with block), "done"
    ip_list,       \* discover_hosts: the enumerated addresses
    submits,       \* the keys handed to executor.submit, in call order;
                   \* future i is the one submit call i returned
    future,        \* future i: "queued", "running", or how its probe ended
    collected,     \* the futures as_completed has yielded so far
    results,       \* port scans: the list results
    scanned,       \* the local counter scanned
    result,        \* discover_hosts: the dict result
    calls,         \* the callback invocations so far, in order
    \* ---- network_utils.scan_port_range (SpecLegacy; fn = "legacy") ----
    open_ports,    \* the list open_ports
    lock,          \* 0, or the thread that holds the lock
    scanned_count, \* scanned_count[0]
    threads,       \* the threads started so far, in order: port, pc, the
                   \* result of scan_port, and the value read for the +=
    joined,        \* how many threads the join loop has joined
    other_threads, \* live threads of the process beside the calling thread
                   \* and the scan's own workers
    \* ---- the cancellation signal of a scan (SpecCancel) ----
    cancel_requested, \* TRUE once the caller has asked the running scan to stop
    \* ---- one probe: scan_port of both modules, and one unit of
    \*      scan_common_ports (SpecProbe) ----
    probe_fn,      \* "scan_port", "legacy_scan_port" or "scan_common_ports"
    ports,         \* scan_common_ports: the list ports
    probe_port,    \* the argument port
    probe_b,       \* how connect_ex ended, "" before it
    probePc,       \* "call", "listed", "start", "connect", "close", "ret"
    probe_result,  \* what the probe returns
    sock,          \* the socket of the probe: "none", "open" or "closed"
    \* ---- network_utils.ping_host and tcp_ping (SpecPing) ----
    ping_fn,       \* the function called: "ping_host" or "tcp_ping"
    icmp,          \* how ping3.ping ended ("" before it), and the seconds it
                   \* returned
    pingPc,        \* "call", "tcp" (inside tcp_ping), "ret"
    attempts,      \* the TCP connect attempts made so far, in order
    ping_result,   \* the tuple returned: success, latency_ms, and the port
                   \* the message names
    \* ---- two calls of a scan and their list objects (SpecSessions) ----
    heap,          \* the list objects created so far; a reference is an index
    sess_range,    \* per call: the ports of its range
    sess_pc,       \* per call: "call", "collect", "done"
    sess_results,  \* per call: the reference its local results holds, 0 before
    sess_scanned,  \* per call: its local scanned
    sess_pending,  \* per call: the ports whose future it has not collected yet
    returned,      \* per call: the value of the list at the moment it was returned
    \* ---- a pool scan against the clock (SpecTimed) ----
    timed_fn,      \* "ports" (scan_port_range, scan_common_ports) or "discover"
    timed_total,   \* the number of units
    timed_cap,     \* max_workers of the executor
    now,           \* ticks since the call
    job,           \* per unit: "queued", "running", "finished", "collected"
    left,          \* per unit: the ticks its running probe still takes
    is_up,         \* per unit: what the finished probe of discover_hosts returned
    enriching,     \* the unit whose hostname and MAC the collecting thread is
                   \* looking up, 0 when it is in no lookup
    enrich_left,   \* the ticks these lookups still take
    timedPc        \* "scan", "done"

cidrVars == <<cidr, ips, cidrPc>>
poolVars == <<fn, start_port, end_port, network_range, max_threads, callback,
              pc, ip_list, submits, future, collected, results, scanned,
              result, calls>>

legacyVars == <<open_ports, lock, scanned_count, threads, joined, other_threads>>

cancelVars == <<cancel_requested>>

probeVars == <<probe_fn, ports, probe_port, probe_b, probePc, probe_result, sock>>

pingVars == <<ping_fn, icmp, pingPc, attempts, ping_result>>

sessVars == <<heap, sess_range, sess_pc, sess_results, sess_scanned,
              sess_pending, returned>>

timedVars == <<timed_fn, timed_total, timed_cap, now, job, left, is_up,
               enriching, enrich_left, timedPc>>

auxVars == <<cancelVars, probeVars, pingVars, sessVars, timedVars>>

vars == <<cidrVars, poolVars, legacyVars, auxVars>>

---------------------------------------------------------------------------
(***************************************************************************)
(* Text of a CIDR argument.  The code only ever splits the text at '/'     *)
(* and at '.', and hands the pieces to int(); the text is therefore        *)
(* modelled by its pieces: a sequence of '/'-separated fields, each a      *)
(* sequence of '.'-separated tokens, each token either a decimal integer   *)
(* (isnum, val) or a text int() refuses.                                   *)
(***************************************************************************)
Tok(n) == [isnum |-> TRUE, val |-> n]
Bad == [isnum |-> FALSE, val |-> 0]

\* Python ints are unbounded; TLC's are 32 bits wide.  Powers of two are only
\* ever taken of exponents 0..30.
Min(a, b) == IF a < b THEN a ELSE b
Max(a, b) == IF a > b THEN a ELSE b

RECURSIVE Pow2(_)
Pow2(n) == IF n <= 0 THEN 1 ELSE 2 * Pow2(n - 1)

AddrBits == 32
HostCap == 254

\* int(text): a value, or ValueError.  A field that still holds a '.' is no
\* integer literal.
IntOfField(field) ==
    IF Len(field) = 1 /\ field[1].isnum
    THEN [ok |-> TRUE, val |-> field[1].val]
    ELSE [ok |-> FALSE, val |-> 0]

\* num_hosts = (1 << host_bits) - 2, then capped at 254 (lines 56-60).
\* (1 << host_bits) - 2 > 254 for every host_bits > 8, so the capped value is
\* computed without forming 1 << host_bits for large host_bits.
NumHosts_minus1(host_bits) ==
    IF host_bits > 8 THEN HostCap
    ELSE LET num_hosts == Pow2(host_bits) - 1
         IN  IF num_hosts > HostCap THEN HostCap ELSE num_hosts
NumHosts(host_bits) ==
    IF host_bits > 8 THEN HostCap
    ELSE LET num_hosts == Pow2(host_bits) - 2
         IN  IF num_hosts > HostCap THEN HostCap ELSE num_hosts

\* base + i as a pair of 16-bit halves <<hi, lo>> with base =
\* (parts[0] << 24) + (parts[1] << 16) + (parts[2] << 8) + parts[3]
\* (line 52; TLA+ sequences count from 1).  lo is left unreduced: the carry
\* is resolved in FormatIp.
IpInt(parts, i) ==
    << parts[1] * 256 + parts[2], parts[3] * 256 + parts[4] + i >>

\* The f-string of line 65: the four octets (ip_int >> k) & 0xFF of
\* ip_int = hi * 2^16 + lo, as the tuple of the four decimal numbers printed.
FormatIp(ip_int) ==
    LET lo == ip_int[2]
        hi == ip_int[1] + (lo \div 65536)
    IN  << (hi \div 256) % 256, hi % 256, (lo \div 256) % 256, lo % 256 >>

\* get_ip_range_from_cidr: every exception inside the try gives [].
get_ip_range_from_cidr(c) ==
    IF Len(c) # 2 THEN << >>                       \* unpack of split('/')
    ELSE LET prefix == IntOfField(c[2])
             network == c[1]
         IN
         IF ~prefix.ok THEN << >>                  \* int(prefix)
         ELSE IF \E k \in 1..Len(network) : ~network[k].isnum
              THEN << >>                           \* int(p) of an octet
         ELSE IF Len(network) < 4 THEN << >>       \* parts[3]: IndexError
         ELSE LET parts == [k \in 1..Len(network) |-> network[k].val]
                  host_bits == AddrBits - prefix.val
              IN
              IF host_bits < 0 THEN << >>          \* 1 << negative: ValueError
              ELSE LET num_hosts == NumHosts(host_bits)
                   IN  [i \in 1..num_hosts |-> FormatIp(IpInt(parts, i))]

---------------------------------------------------------------------------
(***************************************************************************)
(* The values the variables of one specification hold while another        *)
(* specification runs.                                                     *)
(***************************************************************************)
NoneRange == << >>
\* The dict with a host already counted.
EmptyResult_found ==
    [network |-> NoneRange, hosts |-> << >>, total_scanned |-> 0,
     total_found |-> 1, error |-> "None"]

EmptyResult == [network |-> NoneRange, hosts |-> << >>, total_scanned |-> 0,
                total_found |-> 0, error |-> "None"]

PoolIdle ==
    /\ fn = "range"
    /\ start_port = 1
    /\ end_port = 1
    /\ network_range = NoneRange
    /\ max_threads = 1
    /\ callback = FALSE
    /\ pc = "idle"
    /\ ip_list = << >>
    /\ submits = << >>
    /\ future = << >>
    /\ collected = {}
    /\ results = << >>
    /\ scanned = 0
    /\ result = EmptyResult
    /\ calls = << >>

LegacyIdle ==
    /\ open_ports = << >>
    /\ lock = 0
    /\ scanned_count = 0
    /\ threads = << >>
    /\ joined = 0
    /\ other_threads = 0

CidrIdle ==
    /\ cidr = << >>
    /\ ips = << >>
    /\ cidrPc = "idle"

CancelIdle == cancel_requested = FALSE

ProbeIdle ==
    /\ probe_fn = ""
    /\ ports = << >>
    /\ probe_port = 0
    /\ probe_b = ""
    /\ probePc = "idle"
    /\ probe_result = << >>
    /\ sock = "none"

PingIdle ==
    /\ ping_fn = ""
    /\ icmp = [outcome |-> "", seconds |-> 0]
    /\ pingPc = "idle"
    /\ attempts = << >>
    /\ ping_result = << >>

SessIdle ==
    /\ heap = << >>
    /\ sess_range = << >>
    /\ sess_pc = << >>
    /\ sess_results = << >>
    /\ sess_scanned = << >>
    /\ sess_pending = << >>
    /\ returned = << >>

TimedIdle ==
    /\ timed_fn = ""
    /\ timed_total = 0
    /\ timed_cap = 0
    /\ now = 0
    /\ job = << >>
    /\ left = << >>
    /\ is_up = << >>
    /\ enriching = 0
    /\ enrich_left = 0
    /\ timedPc = "idle"

AuxIdle == CancelIdle /\ ProbeIdle /\ PingIdle /\ SessIdle /\ TimedIdle

---------------------------------------------------------------------------
(***************************************************************************)
(* Inputs of SpecCidr.                                                     *)
(***************************************************************************)
MaxPrefix == 33

PrefixFields == {<<Tok(p)>> : p \in (-1)..MaxPrefix} \cup {<<Bad>>, <<Tok(2), Tok(4)>>}

Heads == {<<10, 0>>, <<255, 255>>, <<256, 0>>}
Thirds == {0, 255}
Fourths == {0, 5, 252, 254}

NetworkFields ==
    {<<Tok(h[1]), Tok(h[2]), Tok(t), Tok(f)>> : h \in Heads, t \in Thirds, f \in Fourths}
    \cup {<<Tok(10), Tok(0), Tok(0)>>,
          <<Tok(10), Tok(0), Tok(0), Tok(0), Tok(9)>>,
          <<Tok(10), Bad, Tok(0), Tok(0)>>,
          <<Tok(10), Tok(0), Tok(0), Bad>>,
          <<Bad>>}

CidrInputs ==
    {<<n, p>> : n \in NetworkFields, p \in PrefixFields}
    \cup {<<n>> : n \in NetworkFields}
    \cup {<<n, <<Tok(24)>>, <<Tok(24)>>>> : n \in NetworkFields}

InitCidr ==
    /\ cidr \in CidrInputs
    /\ ips = << >>
    /\ cidrPc = "call"
    /\ PoolIdle
    /\ LegacyIdle
    /\ AuxIdle

CallGetIpRange ==
    /\ cidrPc = "call"
    /\ ips' = get_ip_range_from_cidr(cidr)
    /\ cidrPc' = "ret"
    /\ UNCHANGED <<cidr, poolVars, legacyVars, auxVars>>

NextCidr == CallGetIpRange

SpecCidr == InitCidr /\ [][NextCidr]_vars

---------------------------------------------------------------------------
(***************************************************************************)
(* network/port_scanner.py and network/host_discovery.py: the scans that   *)
(* run their probes on a ThreadPoolExecutor and collect the futures with   *)
(* as_completed on the calling thread.                                     *)
(***************************************************************************)
\* The table without its last entry.
COMMON_PORTS_short ==
    << <<20, "FTP-Data">>, <<21, "FTP">>, <<22, "SSH">>, <<23, "Telnet">>,
       <<25, "SMTP">>, <<53, "DNS">>, <<80, "HTTP">>, <<110, "POP3">>,
       <<143, "IMAP">>, <<443, "HTTPS">>, <<445, "SMB">>, <<993, "IMAPS">>,
       <<995, "POP3S">>, <<3306, "MySQL">>, <<3389, "RDP">>,
       <<5432, "PostgreSQL">>, <<5900, "VNC">>, <<6379, "Redis">>,
       <<8080, "HTTP-Proxy">>, <<8443, "HTTPS-Alt">> >>

COMMON_PORTS ==
    << <<20, "FTP-Data">>, <<21, "FTP">>, <<22, "SSH">>, <<23, "Telnet">>,
       <<25, "SMTP">>, <<53, "DNS">>, <<80, "HTTP">>, <<110, "POP3">>,
       <<143, "IMAP">>, <<443, "HTTPS">>, <<445, "SMB">>, <<993, "IMAPS">>,
       <<995, "POP3S">>, <<3306, "MySQL">>, <<3389, "RDP">>,
       <<5432, "PostgreSQL">>, <<5900, "VNC">>, <<6379, "Redis">>,
       <<8080, "HTTP-Proxy">>, <<8443, "HTTPS-Alt">>, <<27017, "MongoDB">> >>

\* COMMON_PORTS.get(port, 'Unknown')
ServiceOf(port) ==
    IF \E k \in 1..Len(COMMON_PORTS) : COMMON_PORTS[k][1] = port
    THEN COMMON_PORTS[CHOOSE k \in 1..Len(COMMON_PORTS) : COMMON_PORTS[k][1] = port][2]
    ELSE "Unknown"

\* How one call of scan_port can end.  Inside the try: connect_ex returns 0
\* ("connected") or an error code ("refused"; SpecProbe tells the code of a
\* refusal from the code of a timeout, "timeout_code", which the pool scans
\* cannot tell apart), or raises socket.timeout
\* ("timeout"), socket.gaierror ("gaierror") or another exception
\* ("exception").  "fault": an exception leaves scan_port and is raised by
\* future.result().
PortBehaviours == {"connected", "refused", "timeout", "gaierror", "exception", "fault"}

\* connect_ex raises OverflowError for a port outside 0..65535.
PortBehavioursOf(port) ==
    IF port \in 0..65535 THEN PortBehaviours ELSE {"exception"}

\* ping_host_quick returns True ("up") or False ("down"); "fault": the future
\* raises.
HostBehaviours == {"up", "down", "fault"}

\* The dict scan_port returns when it ends as b (b # "fault").
scan_port(port, b) ==
    [port |-> port,
     status |-> CASE b = "connected" -> "open"
                  [] b \in {"refused", "timeout_code"} -> "closed"
                  [] b = "timeout" -> "filtered"
                  [] OTHER -> "error",
     service |-> ServiceOf(port),
     error |-> CASE b = "timeout" -> "Connection timed out"
                 [] b = "gaierror" -> "Could not resolve hostname"
                 [] b = "exception" -> "str(e)"
                 [] OTHER -> "None"]

\* The dict the collecting loop appends in its except branch.
ErrorEntry(port) ==
    [port |-> port, status |-> "error", service |-> ServiceOf(port),
     error |-> "str(e)"]

\* The except branch of the collecting loop (lines 125-131): the entry is
\* appended to the list res.
OnFutureFault_drop(res, port) == res
OnFutureFault(res, port) == Append(res, ErrorEntry(port))

\* range(a, b)
Range_short(a, b) == [k \in 1..(b - a - 1) |-> a + k - 1]
Range(a, b) == [k \in 1..(b - a) |-> a + k - 1]

\* An insertion that puts x before the entries of equal port.
RECURSIVE InsertByPort_unstable(_, _)
InsertByPort_unstable(s, x) ==
    IF s = << >> THEN <<x>>
    ELSE IF s[Len(s)].port < x.port THEN Append(s, x)
    ELSE Append(InsertByPort_unstable(SubSeq(s, 1, Len(s) - 1), x), s[Len(s)])

\* list.sort(key=...): a stable ascending sort, here by insertion.
RECURSIVE InsertByPort(_, _)
InsertByPort(s, x) ==
    IF s = << >> THEN <<x>>
    ELSE IF s[Len(s)].port <= x.port THEN Append(s, x)
    ELSE Append(InsertByPort(SubSeq(s, 1, Len(s) - 1), x), s[Len(s)])

RECURSIVE SortByPort(_)
SortByPort(s) ==
    IF s = << >> THEN << >>
    ELSE InsertByPort(SortByPort(SubSeq(s, 1, Len(s) - 1)), s[Len(s)])

\* str(n) for n in 0..255, as character codes.
Digits(n) ==
    IF n < 10 THEN <<48 + n>>
    ELSE IF n < 100 THEN <<48 + (n \div 10), 48 + (n % 10)>>
    ELSE <<48 + (n \div 100), 48 + ((n \div 10) % 10), 48 + (n % 10)>>

\* The text "a.b.c.d" of an address, as character codes.
IpText(ip) ==
    Digits(ip[1]) \o <<46>> \o Digits(ip[2]) \o <<46>> \o Digits(ip[3])
        \o <<46>> \o Digits(ip[4])

\* s <= t for two str values.
TextLeq(s, t) ==
    \/ \E k \in 1..Min(Len(s), Len(t)) :
          s[k] < t[k] /\ \A j \in 1..(k - 1) : s[j] = t[j]
    \/ Len(s) <= Len(t) /\ \A j \in 1..Len(s) : s[j] = t[j]

\* The key x['ip'] itself: the addresses compared as text.
IpKeyLeq_text(a, b) == TextLeq(IpText(a), IpText(b))

\* The sort key of discover_hosts: [int(p) for p in ip.split('.')], lists
\* compared element by element.
IpKeyLeq(a, b) ==
    \/ a = b
    \/ \E k \in 1..4 : a[k] < b[k] /\ \A j \in 1..(k - 1) : a[j] = b[j]

\* An insertion that loses the entries it should move past.
RECURSIVE InsertByIp_dropping(_, _)
InsertByIp_dropping(s, x) ==
    IF s = << >> THEN <<x>>
    ELSE IF IpKeyLeq(s[Len(s)].ip, x.ip) THEN Append(s, x)
    ELSE InsertByIp_dropping(SubSeq(s, 1, Len(s) - 1), x)

RECURSIVE InsertByIp(_, _)
InsertByIp(s, x) ==
    IF s = << >> THEN <<x>>
    ELSE IF IpKeyLeq(s[Len(s)].ip, x.ip) THEN Append(s, x)
    ELSE Append(InsertByIp(SubSeq(s, 1, Len(s) - 1), x), s[Len(s)])

RECURSIVE SortByIp(_)
SortByIp(s) ==
    IF s = << >> THEN << >>
    ELSE InsertByIp(SortByIp(SubSeq(s, 1, Len(s) - 1)), s[Len(s)])

\* ---- bounds and inputs ----
MaxUnits == 2          \* ports of a range, resp. of the common table, scanned
MaxThreads == 2        \* largest max_threads
CommonPoolSize == 50   \* max_workers of scan_common_ports

StartPorts == {0, 21, 65535}
DiscoverRanges ==
    { << <<Tok(10), Tok(0), Tok(0), Tok(0)>>, <<Tok(30)>> >>,
      << <<Tok(10), Tok(0), Tok(0), Tok(9)>>, <<Tok(30)>> >>,
      << <<Tok(10), Tok(0), Tok(0), Tok(8)>>, <<Tok(30)>> >>,
      << <<Tok(10), Tok(0), Tok(0), Tok(0)>>, <<Tok(31)>> >>,
      << <<Tok(10), Tok(0), Tok(0), Tok(0)>> >> }
\* get_local_network_range returns None or "a.b.c.0/24".  A /24 is 254 probes;
\* the detected block is shortened to a /30 here.
DetectedRanges ==
    { NoneRange, << <<Tok(10), Tok(0), Tok(0), Tok(0)>>, <<Tok(30)>> >> }
Hostnames == {"None", "hostname"}
Macs == {"None", "MAC"}

\* ports = list(COMMON_PORTS.keys()), cut to the first MaxUnits keys.
CommonKeys ==
    [k \in 1..Min(MaxUnits, Len(COMMON_PORTS)) |-> COMMON_PORTS[k][1]]

\* The units without the first.
Units_skipFirst ==
    CASE fn = "range" -> Range(start_port + 1, end_port + 1)
      [] fn = "common" -> SubSeq(CommonKeys, 2, Len(CommonKeys))
      [] OTHER -> SubSeq(ip_list, 2, Len(ip_list))

\* The units the scan submits, in order.
Units ==
    CASE fn = "range" -> Range(start_port, end_port + 1)
      [] fn = "common" -> CommonKeys
      [] OTHER -> ip_list

\* total_ports, resp. total
Total ==
    CASE fn = "range" -> end_port - start_port + 1
      [] fn = "common" -> Len(CommonKeys)
      [] OTHER -> Len(ip_list)

\* max_workers of the executor
PoolSize_perUnit == Len(Units)
PoolSize == IF fn = "common" THEN CommonPoolSize ELSE max_threads

Running == {i \in 1..Len(future) : future[i] = "running"}
Finished == {i \in 1..Len(future) : future[i] \notin {"queued", "running"}}

InitPool ==
    /\ fn \in {"range", "common", "discover"}
    /\ \/ /\ fn = "range"
          /\ start_port \in StartPorts
          /\ end_port \in (start_port - 2)..(start_port + MaxUnits - 1)
          /\ network_range = NoneRange
          /\ max_threads \in 1..MaxThreads
       \/ /\ fn = "common"
          /\ start_port = 1
          /\ end_port = 1
          /\ network_range = NoneRange
          /\ max_threads = 1
       \/ /\ fn = "discover"
          /\ start_port = 1
          /\ end_port = 1
          /\ network_range \in DiscoverRanges \cup {NoneRange}
          /\ max_threads \in 1..MaxThreads
    /\ callback \in BOOLEAN
    /\ pc = "call"
    /\ ip_list = << >>
    /\ submits = << >>
    /\ future = << >>
    /\ collected = {}
    /\ results = << >>
    /\ scanned = 0
    /\ result = EmptyResult
    /\ calls = << >>
    /\ CidrIdle
    /\ LegacyIdle
    /\ AuxIdle

\* scan_port_range, scan_common_ports up to the with statement.
PortScanCall ==
    /\ pc = "call"
    /\ fn \in {"range", "common"}
    /\ pc' = "scan"
    /\ UNCHANGED <<fn, start_port, end_port, network_range, max_threads,
                   callback, ip_list, submits, future, collected, results,
                   scanned, result, calls, cidrVars, legacyVars, auxVars>>

\* discover_hosts up to the with statement, or to its early return.
DiscoverHostsCall ==
    /\ pc = "call"
    /\ fn = "discover"
    /\ \E detected \in DetectedRanges :
         LET range == IF network_range = NoneRange THEN detected ELSE network_range
             list == get_ip_range_from_cidr(range)
         IN
         IF range = NoneRange
         THEN /\ result' = [result EXCEPT !.error = "Could not detect local network"]
              /\ pc' = "done"
              /\ UNCHANGED <<network_range, ip_list>>
         ELSE /\ network_range' = range
              /\ IF list = << >>
                 THEN /\ result' = [result EXCEPT !.network = range,
                                                  !.error = "Invalid network range"]
                      /\ pc' = "done"
                      /\ UNCHANGED ip_list
                 ELSE /\ result' = [result EXCEPT !.network = range,
                                                  !.total_scanned = Len(list)]
                      /\ ip_list' = list
                      /\ pc' = "scan"
    /\ UNCHANGED <<fn, start_port, end_port, max_threads, callback, submits,
                   future, collected, results, scanned, calls, cidrVars, legacyVars, auxVars>>

\* One executor.submit of the dict comprehension.
Submit ==
    /\ pc = "scan"
    /\ Len(submits) < Len(Units)
    /\ submits' = Append(submits, Units[Len(submits) + 1])
    /\ future' = Append(future, "queued")
    /\ UNCHANGED <<fn, start_port, end_port, network_range, max_threads,
                   callback, pc, ip_list, collected, results, scanned, result,
                   calls, cidrVars, legacyVars, auxVars>>

\* A pool worker takes the oldest queued work item; the pool has at most
\* max_workers workers, each running one item at a time.
StartProbe(i) ==
    /\ pc = "scan"
    /\ future[i] = "queued"
    /\ \A j \in 1..(i - 1) : future[j] # "queued"
    /\ Cardinality(Running) < PoolSize
    /\ future' = [future EXCEPT ![i] = "running"]
    /\ UNCHANGED <<fn, start_port, end_port, network_range, max_threads,
                   callback, pc, ip_list, submits, collected, results,
                   scanned, result, calls, cidrVars, legacyVars, auxVars>>

\* The probe of future i ends as b.
FinishProbe(i, b) ==
    /\ pc = "scan"
    /\ future[i] = "running"
    /\ b \in (IF fn = "discover" THEN HostBehaviours
              ELSE PortBehavioursOf(submits[i]))
    /\ future' = [future EXCEPT ![i] = b]
    /\ UNCHANGED <<fn, start_port, end_port, network_range, max_threads,
                   callback, pc, ip_list, submits, collected, results,
                   scanned, result, calls, cidrVars, legacyVars, auxVars>>

\* One round of the for loop over as_completed in scan_port_range and
\* scan_common_ports; raises: the callback, if invoked, raises.
CollectPort(i, raises) ==
    /\ pc = "scan"
    /\ fn \in {"range", "common"}
    /\ Len(submits) = Len(Units)
    /\ i \in Finished \ collected
    /\ collected' = collected \cup {i}
    /\ LET port == submits[i] IN
       IF future[i] = "fault"
       THEN /\ ~raises
            /\ results' = OnFutureFault(results, port)
            /\ scanned' = scanned + 1
            /\ UNCHANGED calls
       ELSE IF ~callback
       THEN /\ ~raises
            /\ results' = Append(results, scan_port(port, future[i]))
            /\ scanned' = scanned + 1
            /\ UNCHANGED calls
       ELSE /\ calls' = Append(calls, [completed |-> scanned + 1,
                                       total |-> Total, raised |-> raises])
            /\ IF raises
               THEN /\ results' = OnFutureFault(
                                      Append(results, scan_port(port, future[i])), port)
                    /\ scanned' = scanned + 2
               ELSE /\ results' = Append(results, scan_port(port, future[i]))
                    /\ scanned' = scanned + 1
    /\ UNCHANGED <<fn, start_port, end_port, network_range, max_threads,
                   callback, pc, ip_list, submits, future, result, cidrVars, legacyVars, auxVars>>

\* One round of the for loop over as_completed in discover_hosts; hostname
\* and mac are what get_hostname_for_ip and get_mac_from_arp return.
CollectHost(i, raises, hostname, mac) ==
    /\ pc = "scan"
    /\ fn = "discover"
    /\ Len(submits) = Len(Units)
    /\ i \in Finished \ collected
    /\ collected' = collected \cup {i}
    /\ scanned' = scanned + 1
    /\ IF future[i] = "fault"
       THEN /\ ~raises /\ hostname = "None" /\ mac = "None"
            /\ UNCHANGED <<result, calls>>
       ELSE /\ IF future[i] = "up"
               THEN result' = [result EXCEPT
                        !.hosts = Append(@, [ip |-> submits[i], hostname |-> hostname,
                                             mac |-> mac, status |-> "up"]),
                        !.total_found = @ + 1]
               ELSE /\ hostname = "None" /\ mac = "None"
                    /\ UNCHANGED result
            /\ IF callback
               THEN calls' = Append(calls, [completed |-> scanned + 1,
                                            total |-> Total, raised |-> raises])
               ELSE /\ ~raises
                    /\ UNCHANGED calls
    /\ UNCHANGED <<fn, start_port, end_port, network_range, max_threads,
                   callback, pc, ip_list, submits, future, results, cidrVars, legacyVars, auxVars>>

\* The loop is over, the with block is left, the list is sorted and returned.
Return ==
    /\ pc = "scan"
    /\ Len(submits) = Len(Units)
    /\ collected = 1..Len(submits)
    /\ pc' = "done"
    /\ IF fn = "discover"
       THEN /\ result' = [result EXCEPT !.hosts = SortByIp(@)]
            /\ UNCHANGED results
       ELSE /\ results' = SortByPort(results)
            /\ UNCHANGED result
    /\ UNCHANGED <<fn, start_port, end_port, network_range, max_threads,
                   callback, ip_list, submits, future, collected, scanned,
                   calls, cidrVars, legacyVars, auxVars>>

Next ==
    \/ PortScanCall
    \/ DiscoverHostsCall
    \/ Submit
    \/ \E i \in 1..Len(future) : StartProbe(i)
    \/ \E i \in 1..Len(future) : \E b \in PortBehaviours \cup HostBehaviours :
         FinishProbe(i, b)
    \/ \E i \in 1..Len(future) : \E raises \in BOOLEAN : CollectPort(i, raises)
    \/ \E i \in 1..Len(future) : \E raises \in BOOLEAN :
         \E hostname \in Hostnames : \E mac \in Macs :
           CollectHost(i, raises, hostname, mac)
    \/ Return

Spec == InitPool /\ [][Next]_vars

\* The caller asks the running scan to stop.  None of the three functions
\* takes a parameter, reads a flag or catches an exception through which the
\* request could reach it: no action of the scan reads cancel_requested.
RequestCancel ==
    /\ pc = "scan"
    /\ ~cancel_requested
    /\ cancel_requested' = TRUE
    /\ UNCHANGED <<poolVars, cidrVars, legacyVars, probeVars, pingVars, sessVars, timedVars>>

NextCancel ==
    \/ Next
    \/ RequestCancel

SpecCancel == InitPool /\ [][NextCancel]_vars

---------------------------------------------------------------------------
(***************************************************************************)
(* Properties of get_ip_range_from_cidr.                                   *)
(***************************************************************************)
InOctet(t) == t.isnum /\ t.val \in 0..255

\* Four octets in 0..255.
WellFormedAddress(c) ==
    /\ Len(c) >= 1
    /\ Len(c[1]) = 4
    /\ \A k \in 1..4 : InOctet(c[1][k])

\* address/prefix with four octets in 0..255 and a prefix in 0..32.
WellFormedCidr(c) ==
    /\ Len(c) = 2
    /\ WellFormedAddress(c)
    /\ Len(c[2]) = 1
    /\ c[2][1].isnum
    /\ c[2][1].val \in 0..AddrBits

PrefixOf(c) == c[2][1].val

\* A dotted quad as its 32-bit value, in 16-bit halves <<hi, lo>>.
Value(ip) == << ip[1] * 256 + ip[2], ip[3] * 256 + ip[4] >>
ValueLess(a, b) == a[1] < b[1] \/ (a[1] = b[1] /\ a[2] < b[2])
AddressOf(c) == Value([k \in 1..4 |-> c[1][k].val])

\* The top p bits of x and b agree.
InBlock(x, b, p) ==
    IF p <= 16
    THEN x[1] \div Pow2(16 - p) = b[1] \div Pow2(16 - p)
    ELSE x[1] = b[1] /\ x[2] \div Pow2(32 - p) = b[2] \div Pow2(32 - p)

\* The low 32 - p bits of x are all zero, resp. all one.
HostBitsZero(x, p) ==
    IF p <= 16 THEN x[1] % Pow2(16 - p) = 0 /\ x[2] = 0
    ELSE x[2] % Pow2(32 - p) = 0
HostBitsOne(x, p) ==
    IF p <= 16 THEN x[1] % Pow2(16 - p) = Pow2(16 - p) - 1 /\ x[2] = 65535
    ELSE x[2] % Pow2(32 - p) = Pow2(32 - p) - 1

\* min(2^(32-p) - 2, 254); 2^(32-p) - 2 > 254 whenever 32 - p > 8.
ClaimedCount(p) ==
    IF AddrBits - p > 8 THEN 254 ELSE Min(Pow2(AddrBits - p) - 2, 254)

\* C4 as stated: every well-formed CIDR input with prefix p in [0, 32] yields
\* exactly min(2^(32-p) - 2, 254) addresses.
C4_AsStated ==
    (cidrPc = "ret" /\ WellFormedCidr(cidr))
        => Len(ips) = ClaimedCount(PrefixOf(cidr))

\* C4, amended: every well-formed CIDR input with prefix p in [0, 32] yields
\* exactly max(0, min(2^(32-p) - 2, 254)) addresses: 254 for every prefix
\* shorter than /24, 2 for /30, and none for /31 and /32.
C4_Count ==
    (cidrPc = "ret" /\ WellFormedCidr(cidr))
        => /\ Len(ips) = Max(0, ClaimedCount(PrefixOf(cidr)))
           /\ (PrefixOf(cidr) < 24 => Len(ips) = 254)
           /\ (PrefixOf(cidr) = 30 => Len(ips) = 2)
           /\ (PrefixOf(cidr) >= 31 => Len(ips) = 0)

\* A /8, which implies 2^24 - 2 hosts, returned capped at 254 addresses.
C4_Witness ==
    /\ cidrPc = "ret"
    /\ WellFormedCidr(cidr)
    /\ PrefixOf(cidr) = 8
    /\ Len(ips) = 254

\* C5 as stated: for a well-formed CIDR the returned addresses are pairwise
\* distinct, ascending in numeric value, inside the block the CIDR denotes, and
\* are neither the block's network address nor its broadcast address.
C5_AsStated ==
    (cidrPc = "ret" /\ WellFormedCidr(cidr))
        => LET b == AddressOf(cidr)
               p == PrefixOf(cidr)
           IN  /\ \A i \in 1..(Len(ips) - 1) : ValueLess(Value(ips[i]), Value(ips[i + 1]))
               /\ \A i \in 1..Len(ips) :
                    /\ InBlock(Value(ips[i]), b, p)
                    /\ ~HostBitsZero(Value(ips[i]), p)
                    /\ ~HostBitsOne(Value(ips[i]), p)

\* C6 as stated: an input that is not address/prefix with four octets in
\* 0..255 and a prefix in 0..32 yields no addresses.
C6_AsStated ==
    (cidrPc = "ret" /\ ~WellFormedCidr(cidr)) => ips = << >>

---------------------------------------------------------------------------
(***************************************************************************)
(* Properties of the pool scans.                                           *)
(***************************************************************************)
PortScan == fn \in {"range", "common"}

\* 1 <= start_port <= end_port <= 65535
ValidRange == 1 <= start_port /\ start_port <= end_port /\ end_port <= 65535

NoCallbackRaised == \A k \in 1..Len(calls) : ~calls[k].raised

\* The probe ended in an unexpected fault: inside scan_port ("exception") or
\* out of its future ("fault").
Faulted(b) == b \in {"exception", "fault"}

EntriesOf(port) == {k \in 1..Len(results) : results[k].port = port}

\* C1 as stated: when scan_port_range (called with 1 <= start_port <= end_port
\* <= 65535) or scan_common_ports returns, the list has exactly total entries,
\* no port twice, and scanned = total.
C1_AsStated ==
    (pc = "done" /\ PortScan /\ (fn = "range" => ValidRange))
        => /\ Len(results) = Total
           /\ \A j, k \in 1..Len(results) : results[j].port = results[k].port => j = k
           /\ scanned = Total

C3_Partition ==
    (fn = "range" /\ ValidRange)
        => /\ Len(submits) <= end_port - start_port + 1
           /\ \A k \in 1..Len(submits) : submits[k] = start_port + k - 1
           /\ (collected # {} \/ pc = "done"
                 => Len(submits) = end_port - start_port + 1)

\* scan_port_range(host, 21, 22) has returned after submitting 21, then 22.
C3_Witness ==
    /\ fn = "range"
    /\ start_port = 21
    /\ end_port = 22
    /\ pc = "done"
    /\ submits = <<21, 22>>

\* C7 as stated: scan_port_range with start_port > end_port, or with a port
\* below 1 or above 65535, submits no probe and does not return a result.
C7_AsStated ==
    (fn = "range" /\ ~ValidRange) => (submits = << >> /\ pc # "done")

\* C8: the probes in flight are never more than max_threads in
\* scan_port_range and discover_hosts, and never more than 50 in
\* scan_common_ports.
C8_Cap ==
    pc = "scan" =>
        Cardinality(Running) <= (IF fn = "common" THEN 50 ELSE max_threads)

\* The cap binds: max_threads probes are in flight and another waits.
C8_Witness ==
    /\ pc = "scan"
    /\ fn \in {"range", "discover"}
    /\ Cardinality(Running) = max_threads
    /\ \E i \in 1..Len(future) : future[i] = "queued"

\* C10 as stated: a scan that was given a callback (and, for scan_port_range,
\* 1 <= start_port <= end_port <= 65535) has, when it returns, invoked it total
\* times, the k-th time with completed = k and the same total.
C10_AsStated ==
    (pc = "done" /\ callback /\ (fn = "range" => ValidRange))
        => /\ Len(calls) = Total
           /\ \A k \in 1..Len(calls) :
                calls[k].completed = k /\ calls[k].total = Total

\* C11 as stated: the list scan_port_range (called with 1 <= start_port <=
\* end_port <= 65535) and scan_common_ports return is in strictly ascending
\* order of port, whatever order the probes completed in.
C11_AsStated ==
    (pc = "done" /\ PortScan /\ (fn = "range" => ValidRange))
        => \A k \in 1..(Len(results) - 1) : results[k].port < results[k + 1].port

OutcomeOf(i) ==
    IF future[i] = "fault" THEN ErrorEntry(submits[i])
    ELSE scan_port(submits[i], future[i])

\* C13 as stated: the list a scan returns (scan_port_range called with 1 <=
\* start_port <= end_port <= 65535) is determined by the target and the
\* outcomes of the probes alone, and is the same for every completion order:
\* for a port scan it is the list of the units' outcomes in port order, for
\* discover_hosts the hosts found up, each once, in address order.
C13_AsStated ==
    (pc = "done" /\ (fn = "range" => ValidRange)) =>
        IF PortScan
        THEN results = [i \in 1..Len(submits) |-> OutcomeOf(i)]
        ELSE /\ \A j, k \in 1..Len(result.hosts) :
                  j < k => ValueLess(Value(result.hosts[j].ip),
                                     Value(result.hosts[k].ip))
             /\ {result.hosts[k].ip : k \in 1..Len(result.hosts)}
                  = {submits[i] : i \in {j \in 1..Len(submits) : future[j] = "up"}}

\* The k-th unit the partitioning of the call produces: the k-th port of the
\* range, the k-th port of the table, the k-th enumerated address.
UnitOfCall(k) ==
    CASE fn = "range" -> start_port + k - 1
      [] fn = "common" ->
           <<20, 21, 22, 23, 25, 53, 80, 110, 143, 443, 445, 993, 995, 3306,
             3389, 5432, 5900, 6379, 8080, 8443, 27017>>[k]
      [] OTHER -> ip_list[k]

\* The number of units of the call (of the table, the first MaxUnits).
UnitCount ==
    CASE fn = "range" -> Max(0, end_port - start_port + 1)
      [] fn = "common" -> Min(MaxUnits, 21)
      [] OTHER -> Len(ip_list)

\* C18: every unit of a scan is submitted to the pool exactly once, in the
\* order of the partitioning, none is left out when the scan returns, every
\* submitted unit is probed and collected once (a probe that has started is
\* never queued again, one that has ended is never run again), and a
\* submitted unit is never changed.
C18_ExactlyOnce ==
    /\ [](/\ Len(submits) <= UnitCount
          /\ Len(future) = Len(submits)
          /\ \A k \in 1..Len(submits) : submits[k] = UnitOfCall(k)
          /\ collected \subseteq Finished
          /\ (pc = "done" =>
                /\ Len(submits) = UnitCount
                /\ collected = 1..Len(submits)))
    /\ [][\A i \in 1..Len(submits) :
            /\ submits'[i] = submits[i]
            /\ (future[i] # "queued" => future'[i] # "queued")
            /\ (i \in Finished => future'[i] = future[i])
            /\ (i \in collected => i \in collected')]_vars

\* discover_hosts("10.0.0.0/30") has returned: 10.0.0.1 and 10.0.0.2 were
\* each submitted, probed and collected once.
C18_Witness ==
    /\ pc = "done"
    /\ fn = "discover"
    /\ submits = << <<10, 0, 0, 1>>, <<10, 0, 0, 2>> >>
    /\ future = <<"up", "down">>
    /\ collected = {1, 2}

\* C14 as stated: once the cancellation signal of a running scan is raised, no
\* further probe is started: a unit still queued stays queued.
C14_AsStated ==
    [][cancel_requested =>
         \A i \in 1..Len(future) : future[i] = "queued" => future'[i] = "queued"]_vars

---------------------------------------------------------------------------
(***************************************************************************)
(* network_utils.py: scan_port_range, which starts one thread per port,    *)
(* spins on threading.active_count() before each start, and updates the    *)
(* counter and the list under a lock.                                      *)
(***************************************************************************)
LEGACY_COMMON_PORTS ==
    << <<20, "FTP-DATA">>, <<21, "FTP">>, <<22, "SSH">>, <<23, "Telnet">>,
       <<25, "SMTP">>, <<53, "DNS">>, <<80, "HTTP">>, <<110, "POP3">>,
       <<143, "IMAP">>, <<443, "HTTPS">>, <<445, "SMB">>, <<993, "IMAPS">>,
       <<995, "POP3S">>, <<3306, "MySQL">>, <<3389, "RDP">>,
       <<5432, "PostgreSQL">>, <<8080, "HTTP-Proxy">>, <<8443, "HTTPS-Alt">> >>

LegacyServiceOf(port) ==
    IF \E k \in 1..Len(LEGACY_COMMON_PORTS) : LEGACY_COMMON_PORTS[k][1] = port
    THEN LEGACY_COMMON_PORTS[CHOOSE k \in 1..Len(LEGACY_COMMON_PORTS) :
                                LEGACY_COMMON_PORTS[k][1] = port][2]
    ELSE "Unknown"

\* network_utils.scan_port: connect_ex returns 0 ("connected") or an error
\* code ("refused"), or something in the try raises ("exception").
LegacyBehaviours == {"connected", "refused", "exception"}

\* The tuple (port, is_open, service) scan_port returns.
legacy_scan_port(port, b) ==
    [port |-> port,
     is_open |-> (b = "connected"),
     service |-> IF b = "exception" THEN "Error" ELSE LegacyServiceOf(port)]

\* open_ports.sort(key=lambda x: x[0])
RECURSIVE InsertByFirst(_, _)
InsertByFirst(s, x) ==
    IF s = << >> THEN <<x>>
    ELSE IF s[Len(s)][1] <= x[1] THEN Append(s, x)
    ELSE Append(InsertByFirst(SubSeq(s, 1, Len(s) - 1), x), s[Len(s)])

RECURSIVE SortByFirst(_)
SortByFirst(s) ==
    IF s = << >> THEN << >>
    ELSE InsertByFirst(SortByFirst(SubSeq(s, 1, Len(s) - 1)), s[Len(s)])

MaxLegacyPorts == 2    \* ports of a range
MaxOther == 1          \* other live threads of the process

LegacyStartPorts == {21, 80}

\* Threads whose run() has not ended.
Alive == {t \in 1..Len(threads) : threads[t].pc # "dead"}

\* A count that leaves out the scan's workers.
active_count_no_workers == 1 + other_threads

\* threading.active_count(): the calling thread, the other live threads of
\* the process, and the scan's live workers.
active_count == 1 + other_threads + Cardinality(Alive)

\* lock.acquire() of "with lock" succeeds.
LockFree_never_held == TRUE
LockFree == lock = 0

InitLegacy ==
    /\ fn = "legacy"
    /\ start_port \in LegacyStartPorts
    /\ end_port \in (start_port - 2)..(start_port + MaxLegacyPorts - 1)
    /\ max_threads \in 1..MaxThreads
    /\ callback \in BOOLEAN
    /\ other_threads \in 0..MaxOther
    /\ pc = "call"
    /\ open_ports = << >>
    /\ lock = 0
    /\ scanned_count = 0
    /\ threads = << >>
    /\ joined = 0
    /\ calls = << >>
    /\ network_range = NoneRange
    /\ ip_list = << >>
    /\ submits = << >>
    /\ future = << >>
    /\ collected = {}
    /\ results = << >>
    /\ scanned = 0
    /\ result = EmptyResult
    /\ CidrIdle
    /\ AuxIdle

LegacyInputs == <<fn, start_port, end_port, max_threads, callback, other_threads>>
PoolOnly == <<network_range, ip_list, submits, future, collected, results,
              scanned, result>>

\* Lines 171-174: the list, the lock and the counter are created.
LegacyCall ==
    /\ fn = "legacy"
    /\ pc = "call"
    /\ pc' = "start"
    /\ UNCHANGED <<LegacyInputs, PoolOnly, cidrVars, auxVars, open_ports, lock,
                   scanned_count, threads, joined, calls>>

\* One round of the for loop of lines 188-194: the while loop is left when
\* active_count() <= max_threads, and the thread of the next port is started.
StartThread ==
    /\ fn = "legacy"
    /\ pc = "start"
    /\ Len(threads) < end_port - start_port + 1
    /\ ~(active_count > max_threads)
    /\ threads' = Append(threads, [port |-> start_port + Len(threads),
                                   pc |-> "probe", is_open |-> FALSE,
                                   service |-> "", read |-> 0])
    /\ UNCHANGED <<LegacyInputs, PoolOnly, cidrVars, auxVars, open_ports, lock,
                   scanned_count, joined, calls, pc>>

\* The for loop is over.
StartJoining ==
    /\ fn = "legacy"
    /\ pc = "start"
    /\ ~(Len(threads) < end_port - start_port + 1)
    /\ pc' = "join"
    /\ UNCHANGED <<LegacyInputs, PoolOnly, cidrVars, auxVars, open_ports, lock,
                   scanned_count, threads, joined, calls>>

\* scan_worker, line 177: scan_port(ip, port) returns.
WorkerProbe(t, b) ==
    /\ threads[t].pc = "probe"
    /\ LET r == legacy_scan_port(threads[t].port, b) IN
       threads' = [threads EXCEPT ![t].pc = "acquire", ![t].is_open = r.is_open,
                                  ![t].service = r.service]
    /\ UNCHANGED <<LegacyInputs, PoolOnly, cidrVars, auxVars, open_ports, lock,
                   scanned_count, joined, calls, pc>>

\* scan_worker, line 179: with lock.
WorkerAcquire(t) ==
    /\ threads[t].pc = "acquire"
    /\ LockFree
    /\ lock' = t
    /\ threads' = [threads EXCEPT ![t].pc = "load"]
    /\ UNCHANGED <<LegacyInputs, PoolOnly, cidrVars, auxVars, open_ports,
                   scanned_count, joined, calls, pc>>

\* scanned_count[0] += 1 reads the element ...
WorkerLoad(t) ==
    /\ threads[t].pc = "load"
    /\ threads' = [threads EXCEPT ![t].pc = "store", ![t].read = scanned_count]
    /\ UNCHANGED <<LegacyInputs, PoolOnly, cidrVars, auxVars, open_ports, lock,
                   scanned_count, joined, calls, pc>>

\* ... and stores the sum.
WorkerStore(t) ==
    /\ threads[t].pc = "store"
    /\ scanned_count' = threads[t].read + 1
    /\ threads' = [threads EXCEPT ![t].pc = "append"]
    /\ UNCHANGED <<LegacyInputs, PoolOnly, cidrVars, auxVars, open_ports, lock,
                   joined, calls, pc>>

\* Lines 181-182.
WorkerAppend(t) ==
    /\ threads[t].pc = "append"
    /\ open_ports' = IF threads[t].is_open
                     THEN Append(open_ports, <<threads[t].port, threads[t].service>>)
                     ELSE open_ports
    /\ threads' = [threads EXCEPT ![t].pc = "notify"]
    /\ UNCHANGED <<LegacyInputs, PoolOnly, cidrVars, auxVars, lock, scanned_count,
                   joined, calls, pc>>

\* Lines 184-185 and the end of the with block: the callback, if any, is
\* called with the counter as it is now; whether it returns or raises, the
\* lock is released and the thread ends.
WorkerNotify(t, raises) ==
    /\ threads[t].pc = "notify"
    /\ IF callback
       THEN calls' = Append(calls, [completed |-> scanned_count,
                                    total |-> end_port - start_port + 1,
                                    raised |-> raises])
       ELSE /\ ~raises
            /\ UNCHANGED calls
    /\ lock' = 0
    /\ threads' = [threads EXCEPT ![t].pc = "dead"]
    /\ UNCHANGED <<LegacyInputs, PoolOnly, cidrVars, auxVars, open_ports,
                   scanned_count, joined, pc>>

\* One t.join() of lines 197-198 returns.
Join ==
    /\ fn = "legacy"
    /\ pc = "join"
    /\ joined < Len(threads)
    /\ threads[joined + 1].pc = "dead"
    /\ joined' = joined + 1
    /\ UNCHANGED <<LegacyInputs, PoolOnly, cidrVars, auxVars, open_ports, lock,
                   scanned_count, threads, calls, pc>>

\* Lines 200-203.
LegacyReturn ==
    /\ fn = "legacy"
    /\ pc = "join"
    /\ joined = Len(threads)
    /\ open_ports' = SortByFirst(open_ports)
    /\ pc' = "done"
    /\ UNCHANGED <<LegacyInputs, PoolOnly, cidrVars, auxVars, lock, scanned_count,
                   threads, joined, calls>>

NextLegacy ==
    \/ LegacyCall
    \/ StartThread
    \/ StartJoining
    \/ \E t \in 1..Len(threads) : \E b \in LegacyBehaviours : WorkerProbe(t, b)
    \/ \E t \in 1..Len(threads) : WorkerAcquire(t)
    \/ \E t \in 1..Len(threads) : WorkerLoad(t)
    \/ \E t \in 1..Len(threads) : WorkerStore(t)
    \/ \E t \in 1..Len(threads) : WorkerAppend(t)
    \/ \E t \in 1..Len(threads) : \E raises \in BOOLEAN : WorkerNotify(t, raises)
    \/ Join
    \/ LegacyReturn

SpecLegacy == InitLegacy /\ [][NextLegacy]_vars

---------------------------------------------------------------------------
(***************************************************************************)
(* Properties of network_utils.scan_port_range.                            *)
(***************************************************************************)
OpenEntriesOf(port) == {k \in 1..Len(open_ports) : open_ports[k][1] = port}

\* C9: when network_utils.scan_port_range (called with start_port <=
\* end_port) returns, scanned_count[0] = end_port - start_port + 1, every port
\* whose probe reported open is in the returned list exactly once, and no other
\* port is in it.
C9_NoLostUpdate ==
    (fn = "legacy" /\ pc = "done" /\ start_port <= end_port)
        => /\ scanned_count = end_port - start_port + 1
           /\ Len(threads) = end_port - start_port + 1
           /\ \A t \in 1..Len(threads) :
                Cardinality(OpenEntriesOf(threads[t].port))
                    = (IF threads[t].is_open THEN 1 ELSE 0)
           /\ \A k \in 1..Len(open_ports) :
                \E t \in 1..Len(threads) : threads[t].port = open_ports[k][1]

\* A scan of two ports, with max_threads leaving room for two workers at a
\* time, has returned with both ports found open.
C9_Witness ==
    /\ fn = "legacy"
    /\ pc = "done"
    /\ max_threads >= 2 + other_threads
    /\ Len(threads) = 2
    /\ scanned_count = 2
    /\ Len(open_ports) = 2

\* C23: sorting the returned list once more, by port for a port scan and by
\* the numeric address for discover_hosts, gives the same list, element for
\* element.
C23_Idempotent ==
    pc = "done" =>
        /\ (PortScan => SortByPort(results) = results)
        /\ (fn = "discover" => SortByIp(result.hosts) = result.hosts)

\* A port scan has returned a list of three entries, two of them of the same
\* port.
C23_Witness ==
    /\ pc = "done"
    /\ PortScan
    /\ Len(results) = 3
    /\ \E k \in 1..2 : results[k].port = results[k + 1].port
                        /\ results[k] # results[k + 1]

DiscoverErrors == {"Could not detect local network", "Invalid network range"}

\* C24: discover_hosts called with no range takes the range that
\* get_local_network_range detected; when nothing was detected it returns with
\* error 'Could not detect local network', when the range (given or detected)
\* yields no addresses it returns with error 'Invalid network range'; in both
\* returns hosts is empty, total_scanned = 0, total_found = 0, no probe was
\* submitted and the callback was not called.
C24_EarlyReturn ==
    /\ []((fn = "discover" /\ pc = "done" /\ result.error \in DiscoverErrors)
            => /\ result.hosts = << >>
               /\ result.total_scanned = 0
               /\ result.total_found = 0
               /\ submits = << >>
               /\ future = << >>
               /\ calls = << >>)
    /\ [][(fn = "discover" /\ pc = "call") =>
            /\ (network_range # NoneRange => network_range' = network_range)
            /\ IF network_range' = NoneRange
               THEN /\ pc' = "done"
                    /\ result'.error = "Could not detect local network"
               ELSE /\ network_range' \in DiscoverRanges \cup DetectedRanges
                    /\ result'.network = network_range'
                    /\ IF get_ip_range_from_cidr(network_range') = << >>
                       THEN /\ pc' = "done"
                            /\ result'.error = "Invalid network range"
                       ELSE /\ pc' = "scan"
                            /\ result'.error = "None"
                            /\ ip_list' = get_ip_range_from_cidr(network_range')]_vars

\* discover_hosts() was called without a range, nothing was detected, and it
\* has returned with the error and an empty summary.
C24_Witness ==
    /\ fn = "discover"
    /\ pc = "done"
    /\ network_range = NoneRange
    /\ result.error = "Could not detect local network"
    /\ result.hosts = << >>
    /\ result.total_scanned = 0

UpUnits == {i \in 1..Len(submits) : future[i] = "up"}

HostEntriesOf(ip) == {k \in 1..Len(result.hosts) : result.hosts[k].ip = ip}

\* C25 as stated: a scan given a callback that raises on any of its
\* invocations still returns, for a port scan (scan_port_range called with 1 <=
\* start_port <= end_port <= 65535), exactly one entry per port, the one its
\* probe produced, and for discover_hosts every host found up exactly once,
\* with total_found the number of such hosts.
C25_AsStated ==
    (pc = "done" /\ callback /\ (fn = "range" => ValidRange)) =>
        IF PortScan
        THEN \A i \in 1..Len(submits) :
               /\ Cardinality(EntriesOf(submits[i])) = 1
               /\ \A k \in EntriesOf(submits[i]) : results[k] = OutcomeOf(i)
        ELSE /\ \A i \in 1..Len(submits) :
                  Cardinality(HostEntriesOf(submits[i])) = (IF i \in UpUnits THEN 1 ELSE 0)
             /\ result.total_found = Cardinality(UpUnits)

\* C29: when discover_hosts returns without error, total_scanned is the number
\* of enumerated addresses (each of them probed), total_found is the length of
\* hosts and at most total_scanned, every entry of hosts has status 'up' and
\* the IP of an enumerated address whose probe returned true, and no IP is in
\* hosts twice.
C29_Consistent ==
    (fn = "discover" /\ pc = "done" /\ result.error = "None") =>
        /\ result.total_scanned = Len(ip_list)
        /\ submits = ip_list
        /\ result.total_found = Len(result.hosts)
        /\ result.total_found <= result.total_scanned
        /\ \A k \in 1..Len(result.hosts) :
             /\ result.hosts[k].status = "up"
             /\ \E i \in UpUnits : /\ submits[i] = result.hosts[k].ip
                                    /\ ip_list[i] = result.hosts[k].ip
        /\ \A k, l \in 1..Len(result.hosts) :
             result.hosts[k].ip = result.hosts[l].ip => k = l

\* discover_hosts has returned without error after probing two addresses, of
\* which one was up and is the one entry of hosts.
C29_Witness ==
    /\ fn = "discover"
    /\ pc = "done"
    /\ result.error = "None"
    /\ result.total_scanned = 2
    /\ result.total_found = 1
    /\ Len(result.hosts) = 1
    /\ \E i \in 1..2 : future[i] \in {"down", "fault"}

\* C21 as stated: network_utils.scan_port_range, called with max_threads >= 1,
\* returns: as long as it has not returned, a step of the scan is possible
\* (the busy-wait on threading.active_count() is left, a worker goes on, or a
\* join returns).
C21_AsStated ==
    (fn = "legacy" /\ max_threads >= 1) => (pc = "done" \/ ENABLED NextLegacy)

\* Any one of the four scans.
InitScans == InitPool \/ InitLegacy

NextScans ==
    \/ Next
    \/ NextLegacy

SpecScans == InitScans /\ [][NextScans]_vars

\* Worker t is inside the with lock block of scan_worker.
InCritical(t) == threads[t].pc \in {"load", "store", "append", "notify"}

\* C26: in network_utils.scan_port_range a worker is inside the block that
\* increments, appends and calls the callback only while it holds the lock, the
\* counter, the list and the callback change only by a step of the worker
\* holding the lock, and the final sort runs when no worker is alive; in the
\* pool scans a step of a pool worker (a probe starting or ending) changes
\* neither the results, the counter nor the callback invocations, and no step
\* makes more than one callback invocation.
C26_Exclusive ==
    /\ [](fn = "legacy" =>
            \A t \in 1..Len(threads) : InCritical(t) => lock = t)
    /\ [][fn = "legacy" =>
            /\ (scanned_count' # scanned_count \/ calls' # calls
                   \/ (open_ports' # open_ports /\ pc' # "done"))
                 => (lock # 0 /\ InCritical(lock))
            /\ (pc # "done" /\ pc' = "done") => Alive = {}]_vars
    /\ [][fn # "legacy" =>
            /\ (future' # future /\ Len(future') = Len(future))
                 => UNCHANGED <<results, scanned, result, calls>>
            /\ Len(calls') <= Len(calls) + 1]_vars

\* One worker is between the read and the write of the counter, holding the
\* lock, while another has its result and waits for the lock.
C26_Witness ==
    /\ fn = "legacy"
    /\ \E t, u \in 1..Len(threads) :
         /\ threads[t].pc = "store"
         /\ lock = t
         /\ threads[u].pc = "acquire"

\* C27: in network_utils.scan_port_range the scan_worker threads started and
\* not yet finished are never more than max_threads, whatever the number of
\* ports and of other live threads of the process.
C27_MaxThreads ==
    fn = "legacy" => Cardinality(Alive) <= max_threads

\* max_threads = 2 workers are alive at once, none of them finished.
C27_Witness ==
    /\ fn = "legacy"
    /\ max_threads = 2
    /\ Cardinality(Alive) = 2
    /\ Len(threads) = 2

---------------------------------------------------------------------------
(***************************************************************************)
(* One probe: network/port_scanner.py scan_port, network_utils.py          *)
(* scan_port, and scan_common_ports as far as one of its units: the list   *)
(* of ports it builds and the scan_port call of one element.               *)
(***************************************************************************)
\* How connect_ex can end: it returns 0 ("connected"), ECONNREFUSED
\* ("refused") or, when the timeout set by settimeout runs out, EAGAIN
\* ("timeout_code": connect_ex reports a timeout by its return value); or it
\* raises socket.timeout ("timeout"), socket.gaierror ("gaierror") or another
\* exception ("exception").
ProbeBehaviours ==
    {"connected", "refused", "timeout_code", "timeout", "gaierror", "exception"}

\* connect_ex raises OverflowError for a port outside 0..65535.
ProbeBehavioursOf(port) ==
    IF port \in 0..65535 THEN ProbeBehaviours ELSE {"exception"}

Raised(b) == b \in {"timeout", "gaierror", "exception"}

ProbePorts == {0, 1, 20, 21, 80, 8080, 27017, 65535, 65536}

\* ports = list(COMMON_PORTS.keys())
CommonPortList == [k \in 1..Len(COMMON_PORTS) |-> COMMON_PORTS[k][1]]

\* What the probe returns when connect_ex ended as b.
ProbeResult(f, port, b) ==
    IF f = "legacy_scan_port"
    THEN legacy_scan_port(port, IF Raised(b) THEN "exception"
                                ELSE IF b = "connected" THEN "connected"
                                ELSE "refused")
    ELSE scan_port(port, b)

notProbeVars == <<cidrVars, poolVars, legacyVars, cancelVars, pingVars, sessVars, timedVars>>

InitProbe ==
    /\ probe_fn \in {"scan_port", "legacy_scan_port", "scan_common_ports"}
    /\ IF probe_fn = "scan_common_ports"
       THEN probe_port = 0 /\ probePc = "call"
       ELSE probe_port \in ProbePorts /\ probePc = "start"
    /\ ports = << >>
    /\ probe_b = ""
    /\ probe_result = << >>
    /\ sock = "none"
    /\ CancelIdle
    /\ PingIdle
    /\ SessIdle
    /\ TimedIdle
    /\ PoolIdle
    /\ LegacyIdle
    /\ CidrIdle

\* scan_common_ports, line 156.
ListCommonPorts ==
    /\ probePc = "call"
    /\ ports' = CommonPortList
    /\ probePc' = "listed"
    /\ UNCHANGED <<probe_fn, probe_port, probe_b, probe_result, sock, notProbeVars>>

\* scan_common_ports, lines 161-164: scan_port is submitted for element k of
\* ports.
SubmitCommonPort(k) ==
    /\ probePc = "listed"
    /\ probe_port' = ports[k]
    /\ probePc' = "start"
    /\ UNCHANGED <<probe_fn, ports, probe_b, probe_result, sock, notProbeVars>>

\* sock = socket.socket(...); sock.settimeout(timeout)
ProbeSocket ==
    /\ probePc = "start"
    /\ sock' = "open"
    /\ probePc' = "connect"
    /\ UNCHANGED <<probe_fn, ports, probe_port, probe_b, probe_result, notProbeVars>>

\* connect_ex ends as b.  When it returns, the status is set and the
\* statement sock.close() is next; when it raises, control goes to the except
\* branch, which builds the result and does not touch the socket.
ProbeConnect(b) ==
    /\ probePc = "connect"
    /\ b \in ProbeBehavioursOf(probe_port)
    /\ probe_b' = b
    /\ probe_result' = ProbeResult(probe_fn, probe_port, b)
    /\ probePc' = IF Raised(b) THEN "ret" ELSE "close"
    /\ UNCHANGED <<probe_fn, ports, probe_port, sock, notProbeVars>>

\* sock.close(), and the return.
ProbeClose ==
    /\ probePc = "close"
    /\ sock' = "closed"
    /\ probePc' = "ret"
    /\ UNCHANGED <<probe_fn, ports, probe_port, probe_b, probe_result, notProbeVars>>

NextProbe ==
    \/ ListCommonPorts
    \/ \E k \in 1..Len(ports) : SubmitCommonPort(k)
    \/ ProbeSocket
    \/ \E b \in ProbeBehaviours : ProbeConnect(b)
    \/ ProbeClose

SpecProbe == InitProbe /\ [][NextProbe]_vars

---------------------------------------------------------------------------
(***************************************************************************)
(* Properties of one probe.                                                *)
(***************************************************************************)
\* network.port_scanner.scan_port has returned (called directly or for a unit
\* of scan_common_ports) for a port in 1..65535.
ScanPortReturned ==
    /\ probePc = "ret"
    /\ probe_fn \in {"scan_port", "scan_common_ports"}
    /\ probe_port \in 1..65535

\* C15 as stated: scan_port returns 'open' when the connection was
\* established, 'closed' when it was refused, 'filtered' when there was no
\* response within the timeout (raised as socket.timeout, or returned by
\* connect_ex as a non-zero code), and 'error' with an error message on a
\* resolution failure or any other fault.
C15_AsStated ==
    ScanPortReturned
        => /\ probe_result.status =
                CASE probe_b = "connected" -> "open"
                  [] probe_b = "refused" -> "closed"
                  [] probe_b \in {"timeout", "timeout_code"} -> "filtered"
                  [] OTHER -> "error"
           /\ (probe_result.status = "error" => probe_result.error # "None")

\* C16 as stated: when scan_port of either module returns, the socket it
\* created is closed, also when connect_ex raised a name-resolution error or
\* another exception.
C16_AsStated ==
    (probePc = "ret" /\ probe_port \in 1..65535 /\ probe_b # "timeout")
        => sock = "closed"

\* The table as the specification lists it, and with the entry of port 20.
ListedTable ==
    << <<21, "FTP">>, <<22, "SSH">>, <<23, "Telnet">>, <<25, "SMTP">>,
       <<53, "DNS">>, <<80, "HTTP">>, <<110, "POP3">>, <<143, "IMAP">>,
       <<443, "HTTPS">>, <<445, "SMB">>, <<993, "IMAPS">>, <<995, "POP3S">>,
       <<3306, "MySQL">>, <<3389, "RDP">>, <<5432, "PostgreSQL">>,
       <<5900, "VNC">>, <<6379, "Redis">>, <<8080, "HTTP-Proxy">>,
       <<8443, "HTTPS-Alt">>, <<27017, "MongoDB">> >>
FullTable == << <<20, "FTP-Data">> >> \o ListedTable

NameIn(table, port) ==
    IF \E k \in 1..Len(table) : table[k][1] = port
    THEN table[CHOOSE k \in 1..Len(table) : table[k][1] = port][2]
    ELSE "Unknown"

\* scan_common_ports has one unit per port of table and no other, each
\* labelled with the table's name; scan_port labels a port with the table's
\* name, 'Unknown' when the port is not in it.
ProbesTable(table) ==
    /\ (probe_fn = "scan_common_ports" /\ probePc # "call")
          => /\ Len(ports) = Len(table)
             /\ {ports[k] : k \in 1..Len(ports)} = {table[k][1] : k \in 1..Len(table)}
    /\ (probePc = "ret" /\ probe_fn \in {"scan_port", "scan_common_ports"})
          => probe_result.service = NameIn(table, probe_port)

\* C20 as stated: scan_common_ports probes exactly the 20 ports 21, 22, 23, 25,
\* 53, 80, 110, 143, 443, 445, 993, 995, 3306, 3389, 5432, 5900, 6379, 8080,
\* 8443, 27017, one unit each, labelled with the table's service names, and
\* scan_port names a port by the same table, 'Unknown' for any other port.
C20_AsStated == ProbesTable(ListedTable)

\* C20, amended: scan_common_ports probes exactly 21 ports, the 20 listed and
\* port 20 (FTP-Data), one unit each, labelled with the table's service names,
\* and scan_port names a port by the same table, 'Unknown' for any other port.
C20_Table == ProbesTable(FullTable)

\* The unit of port 20 of scan_common_ports has returned, labelled FTP-Data.
C20_Witness ==
    /\ probe_fn = "scan_common_ports"
    /\ probePc = "ret"
    /\ Len(ports) = 21
    /\ probe_port = 20
    /\ probe_result.service = "FTP-Data"

---------------------------------------------------------------------------
(***************************************************************************)
(* network_utils.py: ping_host and its fallback tcp_ping.                  *)
(***************************************************************************)
\* ports_to_try
PortsToTry_swapped == <<443, 80, 22>>
PortsToTry == <<80, 443, 22>>

\* How ping3.ping can end: it returns None, False or the latency in seconds,
\* or raises PermissionError or another exception (the import of ping3
\* failing included).
IcmpOutcomes == {"None", "False", "latency", "PermissionError", "exception"}
IcmpLatencies == {0, 1}

\* How one connect attempt of tcp_ping can end: connect_ex returns 0
\* ("connected") or an error code ("refused"), or something in the try raises
\* ("exception").
AttemptBehaviours == {"connected", "refused", "exception"}

\* (end_time - start_time) in milliseconds
AttemptLatencies == {1, 2}

\* None as latency_ms
NoLatency == -1

notPingVars == <<cidrVars, poolVars, legacyVars, cancelVars, probeVars, sessVars,
                 timedVars>>

InitPing ==
    /\ ping_fn \in {"ping_host", "tcp_ping"}
    /\ pingPc = IF ping_fn = "ping_host" THEN "call" ELSE "tcp"
    /\ icmp = [outcome |-> "", seconds |-> 0]
    /\ attempts = << >>
    /\ ping_result = << >>
    /\ CancelIdle
    /\ ProbeIdle
    /\ SessIdle
    /\ TimedIdle
    /\ PoolIdle
    /\ LegacyIdle
    /\ CidrIdle

\* A handler that sends every exception to the TCP fallback.
FallsBack_any(o) == o \in {"PermissionError", "exception"}

\* ping_host, lines 92-94: the except clause that calls tcp_ping.
FallsBack(o) == o = "PermissionError"

\* ping_host, lines 81-96: the ICMP echo ends as o, returning secs when o is
\* "latency".
IcmpEcho(o, secs) ==
    /\ pingPc = "call"
    /\ (o # "latency" => secs = 0)
    /\ icmp' = [outcome |-> o, seconds |-> secs]
    /\ IF FallsBack(o)
       THEN /\ pingPc' = "tcp"
            /\ UNCHANGED ping_result
       ELSE /\ pingPc' = "ret"
            /\ ping_result' =
                 IF o = "latency"
                 THEN [success |-> TRUE, latency_ms |-> secs * 1000, port |-> 0]
                 ELSE [success |-> FALSE, latency_ms |-> NoLatency, port |-> 0]
    /\ UNCHANGED <<ping_fn, attempts, notPingVars>>

\* tcp_ping, one round of the for loop (lines 106-120): the attempt on the
\* next port ends as b after lat milliseconds.  closed: sock.close() of line
\* 113 was reached.
TcpAttempt(b, lat) ==
    /\ pingPc = "tcp"
    /\ Len(attempts) < Len(PortsToTry)
    /\ (b = "exception" => lat = 1)
    /\ LET port == PortsToTry[Len(attempts) + 1] IN
       /\ attempts' = Append(attempts, [port |-> port, b |-> b, latency_ms |-> lat,
                                        closed |-> (b # "exception")])
       /\ IF b = "connected"
          THEN /\ ping_result' = [success |-> TRUE, latency_ms |-> lat, port |-> port]
               /\ pingPc' = "ret"
          ELSE UNCHANGED <<ping_result, pingPc>>
    /\ UNCHANGED <<ping_fn, icmp, notPingVars>>

\* tcp_ping, line 122: the loop ended without a return.
TcpGiveUp ==
    /\ pingPc = "tcp"
    /\ Len(attempts) = Len(PortsToTry)
    /\ ping_result' = [success |-> FALSE, latency_ms |-> NoLatency, port |-> 0]
    /\ pingPc' = "ret"
    /\ UNCHANGED <<ping_fn, icmp, attempts, notPingVars>>

NextPing ==
    \/ \E o \in IcmpOutcomes : \E secs \in IcmpLatencies : IcmpEcho(o, secs)
    \/ \E b \in AttemptBehaviours : \E lat \in AttemptLatencies : TcpAttempt(b, lat)
    \/ TcpGiveUp

SpecPing == InitPing /\ [][NextPing]_vars

---------------------------------------------------------------------------
(***************************************************************************)
(* Properties of ping_host and tcp_ping.                                   *)
(***************************************************************************)
Connected(k) == attempts[k].b = "connected"

\* C30: ping_host goes on to tcp_ping, and a TCP connect attempt is made, only
\* when the ICMP echo raised PermissionError; when the echo returned None
\* (timeout) or False (unreachable) or raised another exception, ping_host
\* returns failure with no latency and no TCP attempt was made; when the echo
\* returned a latency, ping_host returns success with that latency times 1000
\* and no TCP attempt was made.
C30_FallbackOnlyOnPermissionError ==
    ping_fn = "ping_host" =>
        /\ (pingPc = "tcp" \/ attempts # << >>) => icmp.outcome = "PermissionError"
        /\ (pingPc = "ret" /\ icmp.outcome \in {"None", "False", "exception"}) =>
              /\ ~ping_result.success
              /\ ping_result.latency_ms = NoLatency
              /\ attempts = << >>
        /\ (pingPc = "ret" /\ icmp.outcome = "latency") =>
              /\ ping_result.success
              /\ ping_result.latency_ms = icmp.seconds * 1000
              /\ attempts = << >>

\* The ICMP echo raised an exception other than PermissionError and ping_host
\* has returned failure without a TCP attempt.
C30_Witness ==
    /\ ping_fn = "ping_host"
    /\ pingPc = "ret"
    /\ icmp.outcome = "exception"
    /\ ~ping_result.success
    /\ attempts = << >>

---------------------------------------------------------------------------
(***************************************************************************)
(* Two calls of scan_port_range on the same host, one after the other or   *)
(* on two threads at once, seen as operations on list objects: results =   *)
(* [] creates a list, results.append and results.sort change the list the  *)
(* local name refers to, return hands that list to the caller.             *)
(* scan_common_ports (results = [], line 157) and discover_hosts (the dict *)
(* literal with 'hosts': [], lines 159-165) create theirs the same way.    *)
(***************************************************************************)
Sessions == {1, 2}

SessRanges == {<<21>>, <<21, 22>>}

\* The two statuses a probe of these calls ends with.
SessBehaviours == {"connected", "refused"}

\* results = []: the reference of the list the display creates.  Every
\* evaluation creates a new object.
FreshRef_shared(h) == 1
FreshRef(h) == Len(h) + 1

SeqToSet(q) == {q[k] : k \in 1..Len(q)}

notSessVars == <<cidrVars, poolVars, legacyVars, cancelVars, probeVars, pingVars,
                 timedVars>>

InitSessions ==
    /\ heap = << >>
    /\ sess_range \in [Sessions -> SessRanges]
    /\ sess_pc = [s \in Sessions |-> "call"]
    /\ sess_results = [s \in Sessions |-> 0]
    /\ sess_scanned = [s \in Sessions |-> 0]
    /\ sess_pending = [s \in Sessions |-> SeqToSet(sess_range[s])]
    /\ returned = [s \in Sessions |-> << >>]
    /\ CancelIdle
    /\ ProbeIdle
    /\ PingIdle
    /\ TimedIdle
    /\ PoolIdle
    /\ LegacyIdle
    /\ CidrIdle

\* Lines 103-105 of call s: results = [], scanned = 0.
SessionCall(s) ==
    /\ sess_pc[s] = "call"
    /\ LET r == FreshRef(heap) IN
       /\ heap' = [k \in 1..Max(Len(heap), r) |-> IF k = r THEN << >> ELSE heap[k]]
       /\ sess_results' = [sess_results EXCEPT ![s] = r]
    /\ sess_scanned' = [sess_scanned EXCEPT ![s] = 0]
    /\ sess_pc' = [sess_pc EXCEPT ![s] = "collect"]
    /\ UNCHANGED <<sess_range, sess_pending, returned, notSessVars>>

\* Lines 117-119 of call s: the future of port has completed as b;
\* results.append(result), scanned += 1.
SessionCollect(s, port, b) ==
    /\ sess_pc[s] = "collect"
    /\ port \in sess_pending[s]
    /\ heap' = [heap EXCEPT ![sess_results[s]] = Append(@, scan_port(port, b))]
    /\ sess_scanned' = [sess_scanned EXCEPT ![s] = @ + 1]
    /\ sess_pending' = [sess_pending EXCEPT ![s] = @ \ {port}]
    /\ UNCHANGED <<sess_range, sess_pc, sess_results, returned, notSessVars>>

\* Lines 135-136 of call s: results.sort(...) in place, return results.
SessionReturn(s) ==
    /\ sess_pc[s] = "collect"
    /\ sess_pending[s] = {}
    /\ heap' = [heap EXCEPT ![sess_results[s]] = SortByPort(@)]
    /\ returned' = [returned EXCEPT ![s] = SortByPort(heap[sess_results[s]])]
    /\ sess_pc' = [sess_pc EXCEPT ![s] = "done"]
    /\ UNCHANGED <<sess_range, sess_results, sess_scanned, sess_pending, notSessVars>>

NextSessions ==
    \/ \E s \in Sessions : SessionCall(s)
    \/ \E s \in Sessions : \E port \in {21, 22} : \E b \in SessBehaviours :
         SessionCollect(s, port, b)
    \/ \E s \in Sessions : SessionReturn(s)

SpecSessions == InitSessions /\ [][NextSessions]_vars

\* C19: two calls never hold the same list; the list of a call holds the
\* entries of that call only, as many as its own counter says; and a list
\* that has been returned keeps the value it was returned with, whatever the
\* other call does afterwards or at the same time, also when both scan the
\* same range.
C19_Isolated ==
    /\ \A s, t \in Sessions :
         (s # t /\ sess_pc[s] # "call" /\ sess_pc[t] # "call")
             => sess_results[s] # sess_results[t]
    /\ \A s \in Sessions :
         /\ sess_pc[s] # "call" =>
              /\ Len(heap[sess_results[s]]) = sess_scanned[s]
              /\ sess_scanned[s] = Len(sess_range[s]) - Cardinality(sess_pending[s])
         /\ sess_pc[s] = "done" =>
              /\ heap[sess_results[s]] = returned[s]
              /\ Len(returned[s]) = Len(sess_range[s])

\* Both calls scanned ports 21 and 22 and have returned: the first found 21
\* open, the second found it closed, and each list still says so.
C19_Witness ==
    /\ \A s \in Sessions : sess_pc[s] = "done" /\ sess_range[s] = <<21, 22>>
    /\ returned[1][1].status = "open"
    /\ returned[2][1].status = "closed"
    /\ heap[sess_results[1]][1].status = "open"
    /\ heap[sess_results[2]][1].status = "closed"

---------------------------------------------------------------------------
(***************************************************************************)
(* A pool scan against the clock.  Each probe blocks a pool worker for at  *)
(* most the probe timeout; in discover_hosts the collecting thread calls   *)
(* get_hostname_for_ip and get_mac_from_arp for every host found up,       *)
(* between taking its future from as_completed and taking the next one.    *)
(* Every step that takes no time is taken before the clock moves, so the   *)
(* time measured is free of scheduling overhead.                           *)
(***************************************************************************)
MaxTimedUnits == 3     \* units of a scan
MaxTimedCap == 2       \* largest max_workers
TimeoutTicks == 2      \* the probe timeout, in ticks
MaxLookupTicks == 1    \* the longest the two lookups of one host take

TimedUnits == 1..timed_total

TimedRunning == {i \in TimedUnits : job[i] = "running"}

notTimedVars == <<cidrVars, poolVars, legacyVars, cancelVars, probeVars, pingVars,
                  sessVars>>

InitTimed ==
    /\ timed_fn \in {"ports", "discover"}
    /\ timed_total \in 1..MaxTimedUnits
    /\ timed_cap \in 1..MaxTimedCap
    /\ now = 0
    /\ job = [i \in TimedUnits |-> "queued"]
    /\ left = [i \in TimedUnits |-> 0]
    /\ is_up = [i \in TimedUnits |-> FALSE]
    /\ enriching = 0
    /\ enrich_left = 0
    /\ timedPc = "scan"
    /\ CancelIdle
    /\ ProbeIdle
    /\ PingIdle
    /\ SessIdle
    /\ PoolIdle
    /\ LegacyIdle
    /\ CidrIdle

\* A pool worker is free and takes the oldest queued unit; its probe will
\* take d ticks.
CanStart(i) ==
    /\ timedPc = "scan"
    /\ job[i] = "queued"
    /\ \A j \in 1..(i - 1) : job[j] # "queued"
    /\ Cardinality(TimedRunning) < timed_cap

TimedStart(i, d) ==
    /\ CanStart(i)
    /\ job' = [job EXCEPT ![i] = "running"]
    /\ left' = [left EXCEPT ![i] = d]
    /\ UNCHANGED <<timed_fn, timed_total, timed_cap, now, is_up, enriching,
                   enrich_left, timedPc, notTimedVars>>

\* The probe of unit i returns; up: what ping_host_quick returned.
CanFinish(i) == job[i] = "running" /\ left[i] = 0

TimedFinish(i, up) ==
    /\ CanFinish(i)
    /\ (timed_fn = "ports" => ~up)
    /\ job' = [job EXCEPT ![i] = "finished"]
    /\ is_up' = [is_up EXCEPT ![i] = up]
    /\ UNCHANGED <<timed_fn, timed_total, timed_cap, now, left, enriching,
                   enrich_left, timedPc, notTimedVars>>

\* as_completed yields the future of unit i to the collecting thread, which
\* is in no lookup.  For a host found up the thread starts the lookups of
\* lines 198-199, which take d ticks together; otherwise the round of the
\* loop takes no time.
CanCollect(i) == job[i] = "finished" /\ enriching = 0

TimedCollect(i, d) ==
    /\ CanCollect(i)
    /\ IF is_up[i]
       THEN /\ enriching' = i
            /\ enrich_left' = d
            /\ UNCHANGED job
       ELSE /\ d = 0
            /\ job' = [job EXCEPT ![i] = "collected"]
            /\ UNCHANGED <<enriching, enrich_left>>
    /\ UNCHANGED <<timed_fn, timed_total, timed_cap, now, left, is_up, timedPc,
                   notTimedVars>>

\* The lookups have returned: lines 201-206, the host is appended and the
\* callback called.
CanEnrich == enriching # 0 /\ enrich_left = 0

TimedEnriched ==
    /\ CanEnrich
    /\ job' = [job EXCEPT ![enriching] = "collected"]
    /\ enriching' = 0
    /\ UNCHANGED <<timed_fn, timed_total, timed_cap, now, left, is_up,
                   enrich_left, timedPc, notTimedVars>>

\* The loop is over and the scan returns.
CanReturn == timedPc = "scan" /\ \A i \in TimedUnits : job[i] = "collected"

TimedReturn ==
    /\ CanReturn
    /\ timedPc' = "done"
    /\ UNCHANGED <<timed_fn, timed_total, timed_cap, now, job, left, is_up,
                   enriching, enrich_left, notTimedVars>>

\* One tick passes while every thread is blocked: the workers in their
\* probes, the collecting thread in as_completed or in a lookup.
Tick ==
    /\ timedPc = "scan"
    /\ ~CanReturn
    /\ ~CanEnrich
    /\ \A i \in TimedUnits : ~CanStart(i) /\ ~CanFinish(i) /\ ~CanCollect(i)
    /\ now' = now + 1
    /\ left' = [i \in TimedUnits |->
                 IF job[i] = "running" /\ left[i] > 0 THEN left[i] - 1 ELSE left[i]]
    /\ enrich_left' = IF enrich_left > 0 THEN enrich_left - 1 ELSE 0
    /\ UNCHANGED <<timed_fn, timed_total, timed_cap, job, is_up, enriching,
                   timedPc, notTimedVars>>

NextTimed ==
    \/ \E i \in TimedUnits : \E d \in 1..TimeoutTicks : TimedStart(i, d)
    \/ \E i \in TimedUnits : \E up \in BOOLEAN : TimedFinish(i, up)
    \/ \E i \in TimedUnits : \E d \in 0..MaxLookupTicks : TimedCollect(i, d)
    \/ TimedEnriched
    \/ TimedReturn
    \/ Tick

SpecTimed == InitTimed /\ [][NextTimed]_vars

---------------------------------------------------------------------------
(***************************************************************************)
(* Properties of a pool scan against the clock.                            *)
(***************************************************************************)
\* ceil(a / b)
CeilDiv(a, b) == (a + b - 1) \div b

\* C22 as stated: a scan of total units with cap max_concurrency has returned
\* within ceil(total / max_concurrency) probe timeouts, host discovery with
\* its hostname and MAC lookups included.
C22_AsStated ==
    timedPc = "done" => now <= CeilDiv(timed_total, timed_cap) * TimeoutTicks

\* C28 as stated: the collecting thread of discover_hosts is never inside a
\* lookup while the completed probe of another host waits to be collected.
C28_AsStated ==
    ~(/\ enriching # 0
      /\ enrich_left > 0
      /\ \E j \in TimedUnits : j # enriching /\ job[j] = "finished")

===========================================================================
